---- MODULE Spec2Model ----
(***************************************************************************)
(* Model of the steamgames CSV-to-SQL converter: the tables module (Game,  *)
(* the six name tables, IntersectionTable) and the csvhandler module       *)
(* (_get_steam_data, _convert_data_to_SQL).                                *)
(*                                                                         *)
(* Python strings are sequences of one-character strings.  Python dicts    *)
(* keep insertion order, so a dict is a sequence of its entries.           *)
(***************************************************************************)
EXTENDS Integers, Sequences, FiniteSets, TLC

(***************************************************************************)
(* Bounds of the model.                                                    *)
(***************************************************************************)
\* rows read from steam.csv over the life of the process
MaxRows == 3
\* direct calls made on the tables module in SpecRegistry and SpecInter
MaxCalls == 3

(***************************************************************************)
(* Program constants.                                                      *)
(***************************************************************************)
LONG_STRING_LIMIT == 2048
DESC_LIMIT == 1024
REC_REQS_LIMIT == 1024
TITLE_LIMIT == 64
DEFAULT_NAME_LIMIT == 32
SHORT_NAME_LIMIT == 16

(***************************************************************************)
(* Strings.                                                                *)
(***************************************************************************)
\* a string of n characters
Pad(n) == [i \in 1..n |-> "x"]

UpperLetters == <<"A","B","C","D","E","F","G","H","I","J","K","L","M",
                  "N","O","P","Q","R","S","T","U","V","W","X","Y","Z">>
LowerLetters == <<"a","b","c","d","e","f","g","h","i","j","k","l","m",
                  "n","o","p","q","r","s","t","u","v","w","x","y","z">>

LowerChar(c) ==
    IF \E i \in 1..26 : UpperLetters[i] = c
    THEN LowerLetters[CHOOSE i \in 1..26 : UpperLetters[i] = c]
    ELSE c

\* str.lower()
Lower(s) == [i \in 1..Len(s) |-> LowerChar(s[i])]

RECURSIVE Escape(_)
\* str.replace('"', '\\"'): every double quote gets a backslash before it
Escape(s) ==
    IF s = <<>> THEN <<>>
    ELSE IF Head(s) = "\"" THEN <<"\\", "\"">> \o Escape(Tail(s))
    ELSE <<Head(s)>> \o Escape(Tail(s))

RECURSIVE SplitFrom(_, _, _)
SplitFrom(s, d, cur) ==
    IF s = <<>> THEN <<cur>>
    ELSE IF Head(s) = d THEN <<cur>> \o SplitFrom(Tail(s), d, <<>>)
    ELSE SplitFrom(Tail(s), d, Append(cur, Head(s)))

\* str.split(d) for a one-character separator: never empty, pieces may be
Split(s, d) == SplitFrom(s, d, <<>>)

(***************************************************************************)
(* Number parsing: int(str) and float(str) raise ValueError on text that   *)
(* is not a number.  Surrounding blanks, a sign and single underscores     *)
(* between digits are accepted, as Python accepts them.                    *)
(***************************************************************************)
Digits == <<"0","1","2","3","4","5","6","7","8","9">>
IsDigit(c) == \E i \in 1..10 : Digits[i] = c
DigitVal(c) == (CHOOSE i \in 1..10 : Digits[i] = c) - 1

RECURSIVE LStrip(_)
LStrip(s) == IF s # <<>> /\ Head(s) = " " THEN LStrip(Tail(s)) ELSE s
RECURSIVE RStrip(_)
RStrip(s) ==
    IF s # <<>> /\ s[Len(s)] = " " THEN RStrip(SubSeq(s, 1, Len(s) - 1)) ELSE s
Strip(s) == LStrip(RStrip(s))

HasSign(s) == s # <<>> /\ Head(s) \in {"+", "-"}
Unsigned(s) == IF HasSign(s) THEN Tail(s) ELSE s

\* digits with single underscores between them
IsDigitRun(s) ==
    /\ s # <<>>
    /\ IsDigit(s[1]) /\ IsDigit(s[Len(s)])
    /\ \A i \in 1..Len(s) : IsDigit(s[i]) \/ s[i] = "_"
    /\ \A i \in 1..(Len(s) - 1) : ~(s[i] = "_" /\ s[i + 1] = "_")

RECURSIVE DigitRunVal(_, _)
DigitRunVal(s, acc) ==
    IF s = <<>> THEN acc
    ELSE IF Head(s) = "_" THEN DigitRunVal(Tail(s), acc)
    ELSE DigitRunVal(Tail(s), acc * 10 + DigitVal(Head(s)))

\* int(s) does not raise
IsInt(s) == IsDigitRun(Unsigned(Strip(s)))
\* int(s)
ParseInt(s) ==
    LET t == Strip(s)
        v == DigitRunVal(Unsigned(t), 0)
    IN IF HasSign(t) /\ Head(t) = "-" THEN 0 - v ELSE v

DotAt(s) == IF \E i \in 1..Len(s) : s[i] = "."
            THEN CHOOSE i \in 1..Len(s) : s[i] = "." /\ \A j \in 1..(i - 1) : s[j] # "."
            ELSE 0

\* float(s) does not raise, for decimal literals
IsFloat(s) ==
    LET u == Unsigned(Strip(s))
        d == DotAt(u)
        ip == IF d = 0 THEN u ELSE SubSeq(u, 1, d - 1)
        fp == IF d = 0 THEN <<>> ELSE SubSeq(u, d + 1, Len(u))
    IN /\ (ip # <<>> \/ fp # <<>>)
       /\ (ip = <<>> \/ IsDigitRun(ip))
       /\ (fp = <<>> \/ IsDigitRun(fp))

RECURSIVE DropTrailingZeros(_)
DropTrailingZeros(s) ==
    IF s # <<>> /\ s[Len(s)] = "0" THEN DropTrailingZeros(SubSeq(s, 1, Len(s) - 1))
    ELSE s

RECURSIVE DropUnderscores(_)
DropUnderscores(s) ==
    IF s = <<>> THEN <<>>
    ELSE IF Head(s) = "_" THEN DropUnderscores(Tail(s))
    ELSE <<Head(s)>> \o DropUnderscores(Tail(s))

\* float(s): sign, whole part and the fraction digits that matter
ParseFloat(s) ==
    LET t == Strip(s)
        u == Unsigned(t)
        d == DotAt(u)
        ip == IF d = 0 THEN u ELSE SubSeq(u, 1, d - 1)
        fp == IF d = 0 THEN <<>> ELSE SubSeq(u, d + 1, Len(u))
        w == DigitRunVal(ip, 0)
        f == DropTrailingZeros(DropUnderscores(fp))
    IN [neg |-> HasSign(t) /\ Head(t) = "-", whole |-> w, frac |-> f]

(***************************************************************************)
(* tables.py: SimpleTable, Game.                                           *)
(***************************************************************************)
\* the length check with >= for >
SimpleTableInit_Strict(name, id, name_char_limit) ==
    IF Len(name) >= name_char_limit
    THEN [raised |-> TRUE, id |-> 0, name |-> <<>>]
    ELSE [raised |-> FALSE, id |-> id, name |-> Escape(name)]

\* SimpleTable.__init__(name, id, name_char_limit): the length check is on
\* the name as given, the stored name has its double quotes escaped
SimpleTableInit(name, id, name_char_limit) ==
    IF Len(name) > name_char_limit
    THEN [raised |-> TRUE, id |-> 0, name |-> <<>>]
    ELSE [raised |-> FALSE, id |-> id, name |-> Escape(name)]

\* the duplicate check left out
InGameList_NoCheck(gl, app_id) == FALSE

\* app_id in Game.game_list
InGameList(gl, app_id) == \E i \in 1..Len(gl) : gl[i].app_id = app_id

\* ids counted from 0
NextGameId_FromZero(gl) == Len(gl)

\* len(Game.game_list)+1
NextGameId(gl) == Len(gl) + 1

\* Game.__init__ on the class-wide game_list gl with arguments a: the new
\* game_list, whether ValueError was raised and the id of the new game
GameInit(gl, a) ==
    LET base == SimpleTableInit(a.title, NextGameId(gl), TITLE_LIMIT)
        rejected == [raised |-> TRUE, game_list |-> gl, id |-> 0]
    IN IF InGameList(gl, a.app_id) THEN rejected
       ELSE IF Len(a.desc) > DESC_LIMIT THEN rejected
       ELSE IF Len(a.min_reqs) > LONG_STRING_LIMIT THEN rejected
       ELSE IF Len(a.rec_reqs) > REC_REQS_LIMIT THEN rejected
       ELSE IF base.raised THEN rejected
       ELSE [raised |-> FALSE,
             id |-> base.id,
             game_list |-> Append(gl,
                [id |-> base.id, name |-> base.name, app_id |-> a.app_id,
                 release_date |-> a.release_date,
                 achieve_count |-> a.achieve_count, in_eng |-> a.in_eng,
                 positives |-> a.positives, negatives |-> a.negatives,
                 ave_play_time |-> a.ave_play_time,
                 med_play_time |-> a.med_play_time,
                 owner_low |-> a.owner_low, owner_high |-> a.owner_high,
                 price |-> a.price, desc |-> Escape(a.desc),
                 min_reqs |-> Escape(a.min_reqs),
                 rec_reqs |-> Escape(a.rec_reqs)])]

(***************************************************************************)
(* tables.py: the six name tables.  DeveloperTable, PublisherTable,        *)
(* RatingTable, PlatformTable, CategoryTable and GenreTable are copies of  *)
(* one another but for the limit passed to SimpleTable.__init__.           *)
(***************************************************************************)
Registries == {"Developer", "Publisher", "Rating", "Platform", "Category", "Genre"}

\* the name_char_limit each constructor passes on
NameCharLimit(reg) ==
    IF reg \in {"Rating", "Platform"} THEN SHORT_NAME_LIMIT ELSE DEFAULT_NAME_LIMIT

\* ids counted from 0
TableInit_FromZero(tbl, name, reg) ==
    LET id == Len(tbl)
        base == SimpleTableInit(name, id, NameCharLimit(reg))
    IN IF base.raised
       THEN [raised |-> TRUE, table |-> tbl, id |-> 0]
       ELSE [raised |-> FALSE, id |-> base.id,
             table |-> Append(tbl, [id |-> base.id, name |-> base.name])]

\* XTable.__init__(name) on the class-wide list tbl
TableInit(tbl, name, reg) ==
    LET id == Len(tbl) + 1
        base == SimpleTableInit(name, id, NameCharLimit(reg))
    IN IF base.raised
       THEN [raised |-> TRUE, table |-> tbl, id |-> 0]
       ELSE [raised |-> FALSE, id |-> base.id,
             table |-> Append(tbl, [id |-> base.id, name |-> base.name])]

\* the comparison made on the names as they are
Contains_CaseSensitive(tbl, str) == \E i \in 1..Len(tbl) : tbl[i].name = str

\* XTable.__contains__(str)
Contains(tbl, str) == \E i \in 1..Len(tbl) : Lower(tbl[i].name) = Lower(str)

\* XTable.index(str): the 0-based position of the first match, ValueError
\* when there is none
Index(tbl, str) ==
    IF Contains(tbl, str)
    THEN [raised |-> FALSE,
          value |-> (CHOOSE i \in 1..Len(tbl) :
                        /\ Lower(tbl[i].name) = Lower(str)
                        /\ \A j \in 1..(i - 1) : Lower(tbl[j].name) # Lower(str)) - 1]
    ELSE [raised |-> TRUE, value |-> 0]

\* the position index() returns taken for the id, without the + 1
LookupOrCreate_ZeroBased(tbl, name, reg) ==
    IF Contains(tbl, name)
    THEN [raised |-> FALSE, table |-> tbl, id |-> Index(tbl, name).value]
    ELSE TableInit(tbl, name, reg)

\* the lookup-or-create sequence of _convert_data_to_SQL:
\*   if XTable.__contains__(n): id = XTable.index(n) + 1
\*   else: id = XTable(n).id
LookupOrCreate(tbl, name, reg) ==
    IF Contains(tbl, name)
    THEN [raised |-> FALSE, table |-> tbl, id |-> Index(tbl, name).value + 1]
    ELSE TableInit(tbl, name, reg)

(***************************************************************************)
(* tables.py: IntersectionTable.  _table is a dict keyed by the pair.      *)
(***************************************************************************)
Stores == {"GameDevelopers", "GamePublishers", "GamePlatforms", "GameRatings",
           "GameCategories", "GameGenres", "GameTags"}

InStore(st, left_id, right_id) ==
    \E i \in 1..Len(st) : st[i].left = left_id /\ st[i].right = right_id

\* the presence check left out: the dict assignment replaces the count
AddEntry_Overwrite(st, left_id, right_id, count) ==
    IF InStore(st, left_id, right_id)
    THEN [raised |-> FALSE,
          table |-> [i \in 1..Len(st) |->
                        IF st[i].left = left_id /\ st[i].right = right_id
                        THEN [st[i] EXCEPT !.count = count] ELSE st[i]]]
    ELSE [raised |-> FALSE,
          table |-> Append(st, [left |-> left_id, right |-> right_id, count |-> count])]

\* IntersectionTable.add_entry(left_id, right_id, count)
AddEntry(st, left_id, right_id, count) ==
    IF InStore(st, left_id, right_id)
    THEN [raised |-> TRUE, table |-> st]
    ELSE [raised |-> FALSE,
          table |-> Append(st, [left |-> left_id, right |-> right_id, count |-> count])]

(***************************************************************************)
(* csvhandler.py: _convert_data_to_SQL, the body of the loop over the      *)
(* rows.  A row (game) is a record of the csv columns, all strings, with   *)
(* keys the set of optional keys it has ('description', 'minimum',         *)
(* 'recommended', 'tags') and tags the dict header -> strength.            *)
(***************************************************************************)
\* the exception raised while the arguments of tables.Game(...) are
\* evaluated left to right, "none" when there is none; owners is
\* game['owners'].split('-')
ArgError(game, owners) ==
    IF ~IsInt(game.app_id) THEN "ValueError"
    ELSE IF ~IsInt(game.positive_ratings) THEN "ValueError"
    ELSE IF ~IsInt(game.negative_ratings) THEN "ValueError"
    ELSE IF ~IsInt(game.average_playtime) THEN "ValueError"
    ELSE IF ~IsInt(game.median_playtime) THEN "ValueError"
    ELSE IF ~IsInt(owners[1]) THEN "ValueError"
    ELSE IF Len(owners) < 2 THEN "IndexError"
    ELSE IF ~IsInt(owners[2]) THEN "ValueError"
    ELSE IF ~IsFloat(game.price) THEN "ValueError"
    ELSE "none"

\* game['description'] after the defaults of lines 158-163, and so on
DescOf(game) == IF "description" \in game.keys THEN game.description ELSE <<>>
MinimumOf(game) == IF "minimum" \in game.keys THEN game.minimum ELSE <<>>
RecommendedOf(game) == IF "recommended" \in game.keys THEN game.recommended ELSE <<>>

\* the two owner bounds passed in each other's place
GameArgs_OwnersSwapped(game, owners) ==
    [app_id |-> ParseInt(game.app_id), title |-> game.name,
     release_date |-> game.release_date, achieve_count |-> game.achievements,
     in_eng |-> (game.english # <<>>),
     positives |-> ParseInt(game.positive_ratings),
     negatives |-> ParseInt(game.negative_ratings),
     ave_play_time |-> ParseInt(game.average_playtime),
     med_play_time |-> ParseInt(game.median_playtime),
     owner_low |-> ParseInt(owners[2]), owner_high |-> ParseInt(owners[1]),
     price |-> ParseFloat(game.price), desc |-> DescOf(game),
     min_reqs |-> MinimumOf(game), rec_reqs |-> RecommendedOf(game)]

\* the arguments of tables.Game(...)
GameArgs(game, owners) ==
    [app_id |-> ParseInt(game.app_id), title |-> game.name,
     release_date |-> game.release_date, achieve_count |-> game.achievements,
     in_eng |-> (game.english # <<>>),
     positives |-> ParseInt(game.positive_ratings),
     negatives |-> ParseInt(game.negative_ratings),
     ave_play_time |-> ParseInt(game.average_playtime),
     med_play_time |-> ParseInt(game.median_playtime),
     owner_low |-> ParseInt(owners[1]), owner_high |-> ParseInt(owners[2]),
     price |-> ParseFloat(game.price), desc |-> DescOf(game),
     min_reqs |-> MinimumOf(game), rec_reqs |-> RecommendedOf(game)]

\* the pieces of a multi-valued column, each linked with count 1
Items(pieces) == [i \in 1..Len(pieces) |-> [name |-> pieces[i], count |-> 1]]
\* the tags of a row, each linked with its strength
TagItems(tags) == [i \in 1..Len(tags) |-> [name |-> tags[i][1], count |-> tags[i][2]]]

\* the rest of one turn of a for loop once the id is known: add_entry
Link(st, reg, store, lk, ad) ==
    IF ad.raised
    THEN [st EXCEPT !.table[reg] = lk.table, !.err = "ValueError"]
    ELSE [st EXCEPT !.table[reg] = lk.table, !.inter[store] = ad.table]

\* one turn of a for loop of lines 189-256: lookup-or-create (result lk) in
\* registry reg, then add_entry in store
ProcessItem(st, reg, store, game_id, item, lk) ==
    IF lk.raised THEN [st EXCEPT !.err = "ValueError"]
    ELSE Link(st, reg, store, lk,
              AddEntry(st.inter[store], game_id, lk.id, item.count))

RECURSIVE ProcessItems(_, _, _, _, _)
\* one of the for loops of lines 189-256, item after item, until one
\* raises ValueError
ProcessItems(st, reg, store, game_id, items) ==
    IF st.err # "none" \/ items = <<>> THEN st
    ELSE ProcessItems(
            ProcessItem(st, reg, store, game_id, Head(items),
                        LookupOrCreate(st.table[reg], Head(items).name, reg)),
            reg, store, game_id, Tail(items))

\* game['tags'] of line 248 raises KeyError when the row has no tags
ProcessTags(st, game_id, game) ==
    IF st.err # "none" THEN st
    ELSE IF "tags" \notin game.keys THEN [st EXCEPT !.err = "KeyError"]
    ELSE ProcessItems(st, "Genre", "GameTags", game_id, TagItems(game.tags))

\* lines 189-256: developers, publishers, platforms, rating, categories,
\* genres, tags, in this order
ProcessAttributes(st, game_id, game) ==
    ProcessTags(
      ProcessItems(
        ProcessItems(
          ProcessItems(
            ProcessItems(
              ProcessItems(
                ProcessItems(st, "Developer", "GameDevelopers", game_id,
                             Items(Split(game.developer, ";"))),
                "Publisher", "GamePublishers", game_id,
                Items(Split(game.publisher, ";"))),
              "Platform", "GamePlatforms", game_id,
              Items(Split(game.platforms, ";"))),
            "Rating", "GameRatings", game_id, Items(<<game.required_age>>)),
          "Category", "GameCategories", game_id,
          Items(Split(game.categories, ";"))),
        "Genre", "GameGenres", game_id, Items(Split(game.genres, ";"))),
      game_id, game)

\* what a row leaves behind: the game list, the registries, the run's
\* intersection tables, the exception that ended it and the id of its game
RowResult(gl, st, game_id) ==
    [game_list |-> gl, table |-> st.table, inter |-> st.inter,
     err |-> st.err, game_id |-> game_id]

\* a row made all-or-nothing: a rejection after Game(...) takes the game,
\* the registry entries and the links of the row away again
Atomic(st, g, res) ==
    IF res.err = "ValueError"
    THEN RowResult(SubSeq(g.game_list, 1, Len(g.game_list) - 1),
                   [st EXCEPT !.err = "ValueError"], g.id)
    ELSE res

AfterGame_Atomic(st, game, g) ==
    IF g.raised THEN RowResult(g.game_list, [st EXCEPT !.err = "ValueError"], 0)
    ELSE Atomic(st, g, RowResult(g.game_list, ProcessAttributes(st, g.id, game), g.id))

\* lines 169-256 once the arguments are evaluated: g is what Game(...) did
AfterGame(st, game, g) ==
    IF g.raised THEN RowResult(g.game_list, [st EXCEPT !.err = "ValueError"], 0)
    ELSE RowResult(g.game_list, ProcessAttributes(st, g.id, game), g.id)

\* lines 157-256 with owners = game['owners'].split('-')
ConvertSplit(gl, st, game, owners, argerr) ==
    IF argerr # "none" THEN RowResult(gl, [st EXCEPT !.err = argerr], 0)
    ELSE AfterGame(st, game, GameInit(gl, GameArgs(game, owners)))

\* the body of the loop of lines 154-259 for one row, on the game list gl,
\* the registries tb and the run's intersection tables it.  The exception
\* that ended the row is "none", "ValueError" (caught by the except clause),
\* or "IndexError" or "KeyError" (which leave the function)
ConvertRow(gl, tb, it, game) ==
    ConvertSplit(gl, [table |-> tb, inter |-> it, err |-> "none"], game,
                 Split(game.owners, "-"),
                 ArgError(game, Split(game.owners, "-")))

(***************************************************************************)
(* csvhandler.py: _get_steam_data.  A row of steam.csv comes with the rows *)
(* the auxiliary files have for its app id: aux is the set of auxiliary    *)
(* files that have one ("description", "requirements", "tags") and         *)
(* strengths the tag columns of its steamspy row, header and cell.  Each   *)
(* auxiliary file has at most one row per app id.                          *)
(***************************************************************************)
\* the tags dict of lines 120-123: the columns whose cell is above zero
TagsOf(strengths) == SelectSeq(strengths, LAMBDA p : ParseInt(p[2]) > 0)

\* int(row[i]) of line 122 raises ValueError on some cell
TagError(row) ==
    "tags" \in row.aux /\ \E i \in 1..Len(row.strengths) : ~IsInt(row.strengths[i][2])

\* the entry of steam_csv_dict after the three auxiliary loops of lines 69-127
Joined(row) ==
    [row EXCEPT
        !.keys = (IF "description" \in row.aux THEN {"description"} ELSE {})
                 \cup (IF "requirements" \in row.aux
                       THEN {"minimum", "recommended"} ELSE {})
                 \cup (IF "tags" \in row.aux THEN {"tags"} ELSE {}),
        !.tags = IF "tags" \in row.aux THEN TagsOf(row.strengths) ELSE <<>>]

\* steam_csv_dict[app_id] = {...} of lines 59-62: a key already in the dict
\* keeps its place and gets the new columns
DictPut(d, row) ==
    IF \E i \in 1..Len(d) : d[i].app_id = row.app_id
    THEN [i \in 1..Len(d) |-> IF d[i].app_id = row.app_id THEN row ELSE d[i]]
    ELSE Append(d, row)

(***************************************************************************)
(* The rows the input files are made of.                                   *)
(***************************************************************************)
RowBase ==
    [app_id |-> <<"1","0">>, name |-> <<"F","o","o">>,
     release_date |-> <<"2","0","1","9">>, achievements |-> <<"5">>,
     english |-> <<"1">>, positive_ratings |-> <<"9">>,
     negative_ratings |-> <<"1">>, average_playtime |-> <<"3">>,
     median_playtime |-> <<"2">>, owners |-> <<"2","0","-","1","0","0">>,
     price |-> <<"7",".","1","9">>,
     developer |-> <<"A","l","i","c","e",";","B","o","b">>,
     publisher |-> <<"P","u","b">>,
     platforms |-> <<"w","i","n",";","m","a","c">>,
     required_age |-> <<"0">>, categories |-> <<"S","o","l","o">>,
     genres |-> <<"I","n","d","i","e">>,
     aux |-> {"description", "requirements", "tags"},
     description |-> <<"d">>, minimum |-> <<"m">>, recommended |-> <<"r">>,
     strengths |-> << <<<<"i","n","d","i","e">>, <<"2","5">>>>,
                     <<<<"r","p","g">>, <<"0">>>> >>,
     keys |-> {}, tags |-> <<>>]

\* a second game by the same developer, written in another case
RowAlice == [RowBase EXCEPT !.app_id = <<"2","0">>, !.name = <<"B","a","r">>,
                            !.developer = <<"a","l","i","c","e">>]
\* another key of the dict that is the same app id as RowBase
RowSameId == [RowBase EXCEPT !.app_id = <<"0","1","0">>, !.name = <<"B","a","z">>]
RowLongDesc == [RowBase EXCEPT !.app_id = <<"3","0">>,
                               !.description = Pad(DESC_LIMIT + 1)]
RowLongDescNoDash == [RowBase EXCEPT !.app_id = <<"3","1">>,
                                     !.description = Pad(DESC_LIMIT + 1),
                                     !.owners = <<"2","0","0">>]
RowLongTitle == [RowBase EXCEPT !.app_id = <<"3","2">>,
                                !.name = Pad(TITLE_LIMIT + 1)]
RowLongReqs == [RowBase EXCEPT !.app_id = <<"3","3">>,
                               !.recommended = Pad(REC_REQS_LIMIT + 1)]
RowNoDash == [RowBase EXCEPT !.app_id = <<"4","0">>, !.owners = <<"2","0","0">>]
RowBadInt == [RowBase EXCEPT !.app_id = <<"4","1">>,
                             !.positive_ratings = <<"a","b","c">>]
RowBadTag == [RowBase EXCEPT !.app_id = <<"4","2">>,
                 !.strengths = << <<<<"i","n","d","i","e">>, <<"x">>>> >>]
\* no row in any auxiliary file
RowNoAux == [RowBase EXCEPT !.app_id = <<"5","0">>, !.aux = {}]
\* no description and no requirements row
RowNoText == [RowBase EXCEPT !.app_id = <<"5","1">>, !.aux = {"tags"}]
\* the same developer twice
RowTwice == [RowBase EXCEPT !.app_id = <<"6","0">>,
                !.developer = <<"C","a","l",";","c","a","l",";","D","a","n">>,
                !.publisher = <<"H","u","b">>]
\* a publisher name over the limit
RowLongPub == [RowBase EXCEPT !.app_id = <<"6","1">>,
                  !.developer = <<"E","v","e">>,
                  !.publisher = Pad(DEFAULT_NAME_LIMIT + 1) \o <<";","H","u","b">>]
\* a developer name with a double quote
RowQuote == [RowBase EXCEPT !.app_id = <<"7","0">>,
                !.developer = <<"Q","\"","c","o">>]
\* two tag columns that differ by case only
RowTagTwice == [RowBase EXCEPT !.app_id = <<"7","1">>,
                   !.strengths = << <<<<"R","p","g">>, <<"5">>>>,
                                   <<<<"r","p","g">>, <<"7">>>> >>]

RawRows == {RowBase, RowAlice, RowSameId, RowLongDesc, RowLongDescNoDash,
            RowLongTitle, RowLongReqs, RowNoDash, RowBadInt, RowBadTag,
            RowNoAux, RowNoText, RowTwice, RowLongPub, RowQuote, RowTagTwice}

\* the values of num_of_entries: all the rows, or the first one only
NumEntries == {-1, 1}

Runs == {1, 2}

(***************************************************************************)
(* Serialization.  A statement is the table it inserts into and the texts  *)
(* of its VALUES list, in order.                                           *)
(***************************************************************************)
RECURSIVE NatToStr(_)
NatToStr(n) == IF n < 10 THEN <<Digits[n + 1]>>
               ELSE NatToStr(n \div 10) \o <<Digits[(n % 10) + 1]>>
\* str(int)
IntToStr(n) == IF n < 0 THEN <<"-">> \o NatToStr(0 - n) ELSE NatToStr(n)
\* str(float) of a decimal value
FloatToStr(p) ==
    (IF p.neg THEN <<"-">> ELSE <<>>) \o NatToStr(p.whole) \o <<".">>
        \o (IF p.frac = <<>> THEN <<"0">> ELSE p.frac)
\* str(bool)
BoolToStr(b) == IF b THEN <<"T","r","u","e">> ELSE <<"F","a","l","s","e">>
DoubleQuoted(s) == <<"\"">> \o s \o <<"\"">>
SingleQuoted(s) == <<"'">> \o s \o <<"'">>

\* Game.to_sql_insert
GameToSql(g) ==
    [into |-> "Game",
     values |-> <<IntToStr(g.id), IntToStr(g.app_id), DoubleQuoted(g.name),
                  DoubleQuoted(g.release_date), g.achieve_count,
                  BoolToStr(g.in_eng), IntToStr(g.positives),
                  IntToStr(g.negatives), IntToStr(g.ave_play_time),
                  IntToStr(g.med_play_time), IntToStr(g.owner_low),
                  IntToStr(g.owner_high), FloatToStr(g.price),
                  DoubleQuoted(g.desc), DoubleQuoted(g.min_reqs),
                  DoubleQuoted(g.rec_reqs)>>]

\* XTable.to_sql_insert
EntryToSql(reg, e) ==
    [into |-> reg,
     values |-> IF reg \in {"Developer", "Publisher"}
                THEN <<IntToStr(e.id), DoubleQuoted(e.name)>>
                ELSE IF reg = "Rating"
                THEN <<IntToStr(e.id), SingleQuoted(e.name), <<"'","P","E","G","I","'">>>>
                ELSE <<IntToStr(e.id), SingleQuoted(e.name)>>]

\* the statements of one registry, in list order
TableToSql(tb, reg) == [i \in 1..Len(tb[reg]) |-> EntryToSql(reg, tb[reg][i])]

\* the weight written whatever include_val is
InterToSql_Weighted(store, st, include_val) ==
    [i \in 1..Len(st) |->
        [into |-> IF include_val THEN "GameTags" ELSE store,
         values |-> <<IntToStr(st[i].left), IntToStr(st[i].right), st[i].count>>]]

\* IntersectionTable.to_sql_insert(include_val) of the table kept in store
InterToSql(store, st, include_val) ==
    [i \in 1..Len(st) |->
        [into |-> IF include_val THEN "GameTags" ELSE store,
         values |-> <<IntToStr(st[i].left), IntToStr(st[i].right)>>
                    \o (IF include_val THEN <<st[i].count>> ELSE <<>>)]]

\* the three files written by lines 262-305
Output(gl, tb, it) ==
    [game |-> [i \in 1..Len(gl) |-> GameToSql(gl[i])],
     aux |-> TableToSql(tb, "Developer") \o TableToSql(tb, "Publisher")
             \o TableToSql(tb, "Rating") \o TableToSql(tb, "Platform")
             \o TableToSql(tb, "Category") \o TableToSql(tb, "Genre"),
     inter |-> InterToSql("GameDevelopers", it["GameDevelopers"], FALSE)
               \o InterToSql("GamePublishers", it["GamePublishers"], FALSE)
               \o InterToSql("GamePlatforms", it["GamePlatforms"], FALSE)
               \o InterToSql("GameRatings", it["GameRatings"], FALSE)
               \o InterToSql("GameCategories", it["GameCategories"], FALSE)
               \o InterToSql("GameGenres", it["GameGenres"], FALSE)
               \o InterToSql("GameGenres", it["GameTags"], TRUE)]

NoOutput == [game |-> <<>>, aux |-> <<>>, inter |-> <<>>]

(***************************************************************************)
(* State.                                                                  *)
(***************************************************************************)
VARIABLES
    game_list,       \* Game.game_list, class-wide
    table,           \* the table list of each of the six name classes
    inter,           \* per run, the seven IntersectionTable objects
    pc,              \* per run, where it is
    count,           \* per run, count of the loop over steam.csv
    steam_csv_dict,  \* per run, the dict read from the files
    pos,             \* per run, the rows of the dict converted so far
    out,             \* per run, the files written
    nrows,           \* rows of steam.csv read so far, calls made so far
    last             \* the last call and how it ended

vars == <<game_list, table, inter, pc, count, steam_csv_dict, pos, out, nrows, last>>

EmptyStores == [s \in Stores |-> <<>>]
NoCall == [op |-> "none", run |-> 0, target |-> "", key |-> <<>>, arg |-> <<>>,
           err |-> "none", id |-> 0]

Init ==
    /\ game_list = <<>>
    /\ table = [reg \in Registries |-> <<>>]
    /\ inter = [r \in Runs |-> EmptyStores]
    /\ pc = [r \in Runs |-> "idle"]
    /\ count = [r \in Runs |-> 0]
    /\ steam_csv_dict = [r \in Runs |-> <<>>]
    /\ pos = [r \in Runs |-> 0]
    /\ out = [r \in Runs |-> NoOutput]
    /\ nrows = 0
    /\ last = NoCall

Finished(r) == pc[r] \in {"done", "aborted"}

(***************************************************************************)
(* read_and_convert_to_sql(n), one run after the other in one process.     *)
(***************************************************************************)
\* the call, up to the open of steam.csv
StartRun(r, n) ==
    /\ pc[r] = "idle"
    /\ \A q \in Runs : q < r => Finished(q)
    /\ \A q \in Runs : q > r => pc[q] = "idle"
    /\ pc' = [pc EXCEPT ![r] = "read"]
    /\ count' = [count EXCEPT ![r] = n]
    /\ last' = [NoCall EXCEPT !.op = "start", !.run = r]
    /\ UNCHANGED <<game_list, table, inter, steam_csv_dict, pos, out, nrows>>

\* one turn of the loop over steam.csv, lines 53-67
ReadRow(r, row) ==
    /\ pc[r] = "read"
    /\ nrows < MaxRows
    /\ nrows' = nrows + 1
    /\ steam_csv_dict' = [steam_csv_dict EXCEPT ![r] = DictPut(@, row)]
    /\ count' = [count EXCEPT ![r] = @ - 1]
    /\ pc' = [pc EXCEPT ![r] = IF count[r] - 1 = 0 THEN "readend" ELSE "read"]
    /\ last' = [NoCall EXCEPT !.op = "read", !.run = r, !.key = row.app_id]
    /\ UNCHANGED <<game_list, table, inter, pos, out>>

\* the end of steam.csv or the break, then the auxiliary loops, lines 69-129
FinishRead(r) ==
    /\ pc[r] \in {"read", "readend"}
    /\ LET d == steam_csv_dict[r]
           bad == \E i \in 1..Len(d) : TagError(d[i])
       IN /\ pc' = [pc EXCEPT ![r] = IF bad THEN "aborted" ELSE "loaded"]
          /\ steam_csv_dict' = [steam_csv_dict EXCEPT ![r] =
                IF bad THEN d ELSE [i \in 1..Len(d) |-> Joined(d[i])]]
          /\ last' = [NoCall EXCEPT !.op = "load", !.run = r,
                         !.err = IF bad THEN "ValueError" ELSE "none"]
    /\ UNCHANGED <<game_list, table, inter, count, pos, out, nrows>>

\* _convert_data_to_SQL up to its loop, lines 143-152
BeginConvert(r) ==
    /\ pc[r] = "loaded"
    /\ inter' = [inter EXCEPT ![r] = EmptyStores]
    /\ game_list' = <<>>
    /\ pc' = [pc EXCEPT ![r] = "rows"]
    /\ last' = [NoCall EXCEPT !.op = "begin", !.run = r]
    /\ UNCHANGED <<table, count, steam_csv_dict, pos, out, nrows>>

\* the row the loop of line 154 is at
CurrentRow(r) == steam_csv_dict[r][pos[r] + 1]

\* one turn of the loop over the rows, lines 154-259: an exception other
\* than ValueError leaves the function
ConvertRowStep(r) ==
    /\ pc[r] = "rows"
    /\ pos[r] < Len(steam_csv_dict[r])
    /\ \E res \in {ConvertRow(game_list, table, inter[r], CurrentRow(r))} :
          /\ game_list' = res.game_list
          /\ table' = res.table
          /\ inter' = [inter EXCEPT ![r] = res.inter]
          /\ pc' = [pc EXCEPT ![r] = IF res.err \in {"IndexError", "KeyError"}
                                     THEN "aborted" ELSE "rows"]
          /\ last' = [NoCall EXCEPT !.op = "row", !.run = r,
                                    !.key = CurrentRow(r).app_id,
                                    !.err = res.err, !.id = res.game_id]
    /\ pos' = [pos EXCEPT ![r] = @ + 1]
    /\ UNCHANGED <<count, steam_csv_dict, out, nrows>>

\* the three files, lines 262-305
Serialize(r) ==
    /\ pc[r] = "rows"
    /\ pos[r] = Len(steam_csv_dict[r])
    /\ out' = [out EXCEPT ![r] = Output(game_list, table, inter[r])]
    /\ pc' = [pc EXCEPT ![r] = "done"]
    /\ last' = [NoCall EXCEPT !.op = "write", !.run = r]
    /\ UNCHANGED <<game_list, table, inter, count, steam_csv_dict, pos, nrows>>

(***************************************************************************)
(* Spec: one run of read_and_convert_to_sql in a fresh process.            *)
(***************************************************************************)
FirstRun == {1}

Next ==
    \/ \E r \in FirstRun, n \in NumEntries : StartRun(r, n)
    \/ \E r \in FirstRun, row \in RawRows : ReadRow(r, row)
    \/ \E r \in FirstRun : FinishRead(r)
    \/ \E r \in FirstRun : BeginConvert(r)
    \/ \E r \in FirstRun : ConvertRowStep(r)
    \/ \E r \in FirstRun : Serialize(r)

Spec == Init /\ [][Next]_vars

(***************************************************************************)
(* SpecProcess: two runs, one after the other, in the same process.        *)
(***************************************************************************)
ProcessRows == {RowBase, RowAlice, RowQuote, RowNoAux}

NextProcess ==
    \/ \E r \in Runs : StartRun(r, -1)
    \/ \E r \in Runs, row \in ProcessRows : ReadRow(r, row)
    \/ \E r \in Runs : FinishRead(r)
    \/ \E r \in Runs : BeginConvert(r)
    \/ \E r \in Runs : ConvertRowStep(r)
    \/ \E r \in Runs : Serialize(r)

SpecProcess == Init /\ [][NextProcess]_vars

(***************************************************************************)
(* SpecRegistry: lookup-or-create calls on the six name tables.            *)
(***************************************************************************)
NameAlice == <<"A","l","i","c","e">>
NameALICE == <<"A","L","I","C","E">>
NameQuote == <<"Q","\"","c","o">>

\* the names looked up in registry reg
CallNames(reg) ==
    {NameAlice, NameALICE, NameQuote,
     Pad(NameCharLimit(reg)), Pad(NameCharLimit(reg) + 1)}

Lookup(reg, name) ==
    /\ nrows < MaxCalls
    /\ nrows' = nrows + 1
    /\ \E res \in {LookupOrCreate(table[reg], name, reg)} :
          /\ table' = [table EXCEPT ![reg] = res.table]
          /\ last' = [NoCall EXCEPT !.op = "lookup", !.target = reg, !.key = name,
                         !.err = IF res.raised THEN "ValueError" ELSE "none",
                         !.id = res.id]
    /\ UNCHANGED <<game_list, inter, pc, count, steam_csv_dict, pos, out>>

NextRegistry == \E reg \in Registries : \E name \in CallNames(reg) : Lookup(reg, name)

SpecRegistry == Init /\ [][NextRegistry]_vars

(***************************************************************************)
(* SpecInter: add_entry calls on the seven intersection tables of a run.   *)
(***************************************************************************)
CallIds == {1, 2}
CallCounts == {1, 7}
\* the tables called: two plain ones and the weighted one
CallStores == {"GameDevelopers", "GameGenres", "GameTags"}

AddEntryCall(store, left_id, right_id, c) ==
    /\ nrows < MaxCalls
    /\ nrows' = nrows + 1
    /\ \E res \in {AddEntry(inter[1][store], left_id, right_id, c)} :
          /\ inter' = [inter EXCEPT ![1][store] = res.table]
          /\ last' = [NoCall EXCEPT !.op = "add_entry", !.target = store,
                         !.arg = <<left_id, right_id, c>>,
                         !.err = IF res.raised THEN "ValueError" ELSE "none"]
    /\ UNCHANGED <<game_list, table, pc, count, steam_csv_dict, pos, out>>

NextInter ==
    \E store \in CallStores, l \in CallIds, rt \in CallIds, c \in CallCounts :
        AddEntryCall(store, l, rt, c)

SpecInter == Init /\ [][NextInter]_vars

(***************************************************************************)
(* Properties.                                                             *)
(***************************************************************************)
IsPrefix(s, t) == Len(s) <= Len(t) /\ SubSeq(t, 1, Len(s)) = s

\* the app id keys of the dict of run r, in order
KeysOf(r) == [i \in 1..Len(steam_csv_dict[r]) |-> steam_csv_dict[r][i].app_id]

\* run r has just converted the row at pos[r]
JustConverted(r) == last.op = "row" /\ last.run = r

\* C1: within a run the k-th accepted game has internal id k, whatever
\* insertions were rejected in between: the games of the store, in the order
\* they were accepted, have the ids 1, 2, 3, ...
C1_IdsInAcceptanceOrder ==
    \A k \in 1..Len(game_list) : game_list[k].id = k

\* the rows 10, 010 (the app id of 10 again, rejected) and 20 are converted:
\* the second accepted game has id 2
C1_Witness ==
    /\ KeysOf(1) = <<RowBase.app_id, RowSameId.app_id, RowAlice.app_id>>
    /\ pos[1] = 3
    /\ JustConverted(1) /\ last.err = "none" /\ last.id = 2
    /\ Len(game_list) = 2
    /\ game_list[1].app_id = 10 /\ game_list[2].app_id = 20

\* C2: in every registry, after any sequence of lookup-or-create calls, no
\* two entries are equal under case-insensitive comparison (so names that
\* differ by case only share one entry and one id)
C2_NoCaseInsensitiveDuplicates ==
    \A reg \in Registries :
        \A i, j \in 1..Len(table[reg]) :
            i # j => Lower(table[reg][i].name) # Lower(table[reg][j].name)

\* C3: a Game(...) call with an app id that is already a key of the game
\* store raises ValueError and leaves the store as it was
C3_DuplicateAppIdRejected ==
    [][\A r \in Runs :
          (/\ pc[r] = "rows" /\ pos'[r] = pos[r] + 1
           /\ ArgError(CurrentRow(r), Split(CurrentRow(r).owners, "-")) = "none"
           /\ \E i \in 1..Len(game_list) :
                 game_list[i].app_id = ParseInt(CurrentRow(r).app_id))
          => (game_list' = game_list /\ last'.err = "ValueError")]_vars

\* row 010 is rejected after row 10 was stored: the store holds game Foo alone
C3_Witness ==
    /\ JustConverted(1) /\ last.key = RowSameId.app_id /\ last.err = "ValueError"
    /\ Len(game_list) = 1
    /\ game_list[1].app_id = 10 /\ game_list[1].id = 1
    /\ game_list[1].name = RowBase.name

\* the limits C4 states
C4_Limit(reg) == IF reg \in {"Rating", "Platform"} THEN 16 ELSE 32

\* C4: when the lookup-or-create sequence constructs an entry (the name is
\* not in the registry), a name longer than the registry's limit raises
\* ValueError and leaves every registry as it was, and a name of at most the
\* limit is appended with the next id
C4_NameLimit ==
    [][\A reg \in Registries :
          (/\ last'.op = "lookup" /\ last'.target = reg /\ nrows' = nrows + 1
           /\ \A i \in 1..Len(table[reg]) :
                 Lower(table[reg][i].name) # Lower(last'.key))
          => IF Len(last'.key) > C4_Limit(reg)
             THEN last'.err = "ValueError" /\ table' = table
             ELSE /\ last'.err = "none"
                  /\ Len(table'[reg]) = Len(table[reg]) + 1
                  /\ IsPrefix(table[reg], table'[reg])
                  /\ last'.id = Len(table'[reg])]_vars

\* Rating holds a name of 16 characters and has just rejected one of 17
C4_Witness ==
    /\ last.op = "lookup" /\ last.target = "Rating" /\ last.err = "ValueError"
    /\ Len(last.key) = 17
    /\ Len(table["Rating"]) = 1 /\ Len(table["Rating"][1].name) = 16

\* the entries of a store with the pair (l, rt)
PairCount(st, l, rt) ==
    Cardinality({i \in 1..Len(st) : st[i].left = l /\ st[i].right = rt})

\* C5: add_entry with a pair that is already in the store raises ValueError
\* and leaves the store as it was, the stored weight included, so that a
\* pair is in a store at most once
C5_DuplicatePairRejected ==
    /\ [](\A store \in Stores : \A l, rt \in CallIds :
             PairCount(inter[1][store], l, rt) <= 1)
    /\ [][\A store \in Stores :
             (/\ last'.op = "add_entry" /\ last'.target = store
              /\ nrows' = nrows + 1
              /\ PairCount(inter[1][store], last'.arg[1], last'.arg[2]) > 0)
             => (inter' = inter /\ last'.err = "ValueError")]_vars

\* the pair (1, 2) is in GameTags with weight 1 and add_entry(1, 2, 7) has
\* just been rejected
C5_Witness ==
    /\ last.op = "add_entry" /\ last.target = "GameTags"
    /\ last.arg = <<1, 2, 7>> /\ last.err = "ValueError"
    /\ inter[1]["GameTags"] = <<[left |-> 1, right |-> 2, count |-> 1]>>

\* the seven stores in the order the loop body fills them
StoreOrder == <<"GameDevelopers", "GamePublishers", "GamePlatforms",
                "GameRatings", "GameCategories", "GameGenres", "GameTags">>
RegistryOf == <<"Developer", "Publisher", "Platform", "Rating", "Category",
                "Genre", "Genre">>

\* the names a row gives for the k-th store
PiecesOf(row, k) ==
    CASE k = 1 -> Split(row.developer, ";")
      [] k = 2 -> Split(row.publisher, ";")
      [] k = 3 -> Split(row.platforms, ";")
      [] k = 4 -> <<row.required_age>>
      [] k = 5 -> Split(row.categories, ";")
      [] k = 6 -> Split(row.genres, ";")
      [] k = 7 -> [i \in 1..Len(row.tags) |-> row.tags[i][1]]

\* C6: a row whose description is over the limit is skipped: the game
\* store, the registries and the association stores are left as they were
\* and the run goes on with the rows after it
C6_LongDescriptionSkipped ==
    [][\A r \in Runs :
          (/\ pc[r] = "rows" /\ pos'[r] = pos[r] + 1
           /\ Len(DescOf(CurrentRow(r))) > 1024)
          => (/\ game_list' = game_list /\ table' = table /\ inter' = inter
              /\ pc'[r] = "rows")]_vars

\* C7: when _convert_data_to_SQL starts its loop the game store and the six
\* registries are empty
C7_EmptyAtStart ==
    \A r \in Runs :
        (last.op = "begin" /\ last.run = r)
        => (game_list = <<>> /\ \A reg \in Registries : table[reg] = <<>>)

\* C8: no malformed field makes a run end early: neither the read nor the
\* conversion leaves by an exception of a field that does not parse
C8_NeverAborts ==
    \A r \in Runs :
        ~(pc[r] = "aborted" /\ last.run = r
          /\ last.err \in {"ValueError", "IndexError"})

\* a row with the keys it lacks set to empty values
WithDefaults(row) ==
    [row EXCEPT !.keys = {"description", "minimum", "recommended", "tags"},
                !.description = DescOf(row), !.minimum = MinimumOf(row),
                !.recommended = RecommendedOf(row),
                !.tags = IF "tags" \in row.keys THEN row.tags ELSE <<>>]

\* C9: a row that lacks auxiliary data is converted as the same row with
\* empty values in their place is, and the run goes on
C9_MissingAuxiliaryIsEmpty ==
    [][\A r \in Runs :
          (/\ pc[r] = "rows" /\ pos'[r] = pos[r] + 1
           /\ CurrentRow(r).keys # {"description", "minimum", "recommended", "tags"})
          => \E exp \in {ConvertRow(game_list, table, inter[r],
                                    WithDefaults(CurrentRow(r)))} :
                /\ game_list' = exp.game_list /\ table' = exp.table
                /\ inter'[r] = exp.inter /\ last'.err = exp.err
                /\ pc'[r] = "rows"]_vars

\* the links store k of run r gained in the step
Gained(r, k) == Len(inter'[r][StoreOrder[k]]) - Len(inter[r][StoreOrder[k]])

\* C10: when Game(...) of a row succeeded and a later step of the row is
\* rejected, nothing is taken back: the game is in the store, registries
\* and stores only gained entries, the attributes before the rejected one
\* (in the order developers, publishers, platforms, rating, categories,
\* genres, tags) have all their links and registry entries, the attributes
\* after it have none, and the run goes on with the next row
C10_NoRollback ==
    [][\A r \in Runs :
          (/\ pc[r] = "rows" /\ pos'[r] = pos[r] + 1
           /\ last'.err = "ValueError" /\ last'.id # 0)
          => /\ Len(game_list') = Len(game_list) + 1
             /\ IsPrefix(game_list, game_list')
             /\ game_list'[Len(game_list')].id = last'.id
             /\ game_list'[Len(game_list')].app_id = ParseInt(CurrentRow(r).app_id)
             /\ \A reg \in Registries : IsPrefix(table[reg], table'[reg])
             /\ \A s \in Stores : IsPrefix(inter[r][s], inter'[r][s])
             /\ \E k \in 1..7 :
                   /\ Gained(r, k) < Len(PiecesOf(CurrentRow(r), k))
                   /\ \A j \in 1..7 : j > k => Gained(r, j) = 0
                   /\ \A j \in 1..7 : j < k =>
                         /\ Gained(r, j) = Len(PiecesOf(CurrentRow(r), j))
                         /\ \A i \in 1..Len(PiecesOf(CurrentRow(r), j)) :
                               \E e \in 1..Len(table'[RegistryOf[j]]) :
                                  Lower(table'[RegistryOf[j]][e].name)
                                     = Lower(Escape(PiecesOf(CurrentRow(r), j)[i]))
             /\ pc'[r] = "rows"]_vars

\* row 60 names the developer Cal twice: its game is stored with the one
\* link to Cal, the second link was rejected, Dan and the publisher were
\* never reached, and the loop is still running
C10_Witness ==
    /\ JustConverted(1) /\ last.key = RowTwice.app_id
    /\ last.err = "ValueError" /\ last.id = 1
    /\ pc[1] = "rows"
    /\ Len(game_list) = 1 /\ game_list[1].app_id = 60
    /\ Len(table["Developer"]) = 1 /\ table["Developer"][1].name = <<"C","a","l">>
    /\ inter[1]["GameDevelopers"] = <<[left |-> 1, right |-> 1, count |-> 1]>>
    /\ table["Publisher"] = <<>> /\ inter[1]["GamePublishers"] = <<>>

\* piece i of attribute k of the row is over the limit of its registry
TooLong(row, k, i) ==
    Len(PiecesOf(row, k)[i]) > C4_Limit(RegistryOf[k])

\* after the step, run r links game g to an entry named as the piece is
LinkedTo(r, k, g, piece) ==
    \E e \in 1..Len(table'[RegistryOf[k]]) :
        /\ Lower(table'[RegistryOf[k]][e].name) = Lower(Escape(piece))
        /\ PairCount(inter'[r][StoreOrder[k]], g, e) = 1

\* C11: when the game of a row is stored and one piece of one of its
\* attributes is over the limit of its registry, only that piece is
\* skipped: every piece of the row within its limit, in the same attribute
\* and in the later ones, has its registry entry and its link to the game
C11_OnlyLongValueSkipped ==
    [][\A r \in Runs :
          (/\ pc[r] = "rows" /\ pos'[r] = pos[r] + 1
           /\ last'.id # 0
           /\ \E k \in 1..7 : \E i \in 1..Len(PiecesOf(CurrentRow(r), k)) :
                 TooLong(CurrentRow(r), k, i))
          => \A k \in 1..7 : \A i \in 1..Len(PiecesOf(CurrentRow(r), k)) :
                ~TooLong(CurrentRow(r), k, i)
                => LinkedTo(r, k, last'.id, PiecesOf(CurrentRow(r), k)[i])]_vars

(***************************************************************************)
(* SpecFields: one run over rows that differ in their scalar columns.      *)
(***************************************************************************)
\* an achievement count that is no number
RowBadAchievements == [RowBase EXCEPT !.app_id = <<"8","0">>,
                                      !.achievements = <<"a","b","c">>]
\* an in-English flag that is no boolean
RowBadEnglish == [RowBase EXCEPT !.app_id = <<"8","1">>,
                                 !.english = <<"m","a","y","b","e">>]
\* owner bounds written with leading zeros and with blanks
RowPaddedOwners == [RowBase EXCEPT !.app_id = <<"9","0">>,
                       !.owners = <<"0","2","0","-","0","1","0","0">>]
RowBlankOwners == [RowBase EXCEPT !.app_id = <<"9","1">>,
                      !.owners = <<" ","5"," ","-","7">>]
RowZeroOwners == [RowBase EXCEPT !.app_id = <<"9","2">>,
                     !.owners = <<"0","-","0">>]

FieldRows == {RowBase, RowBadInt, RowBadAchievements, RowBadEnglish,
              RowPaddedOwners, RowBlankOwners, RowZeroOwners}

NextFields ==
    \/ \E r \in FirstRun : StartRun(r, -1)
    \/ \E r \in FirstRun, row \in FieldRows : ReadRow(r, row)
    \/ \E r \in FirstRun : FinishRead(r)
    \/ \E r \in FirstRun : BeginConvert(r)
    \/ \E r \in FirstRun : ConvertRowStep(r)
    \/ \E r \in FirstRun : Serialize(r)

SpecFields == Init /\ [][NextFields]_vars

\* the texts of a boolean column
BoolTexts == {<<"0">>, <<"1">>, <<"T","r","u","e">>, <<"F","a","l","s","e">>,
              <<"t","r","u","e">>, <<"f","a","l","s","e">>}

\* every numeric column of the row parses as its type and the in-English
\* flag is a boolean
WellFormed(row) ==
    /\ IsInt(row.achievements)
    /\ IsInt(row.positive_ratings) /\ IsInt(row.negative_ratings)
    /\ IsInt(row.average_playtime) /\ IsInt(row.median_playtime)
    /\ Len(Split(row.owners, "-")) = 2
    /\ IsInt(Split(row.owners, "-")[1]) /\ IsInt(Split(row.owners, "-")[2])
    /\ IsFloat(row.price)
    /\ row.english \in BoolTexts

\* C12: a row with a numeric column that does not parse as its type, or
\* with an in-English flag that is no boolean, is rejected: no game is
\* stored for it and no registry entry or association is created for it
C12_InvalidFormatRejected ==
    [][\A r \in Runs :
          (/\ pc[r] = "rows" /\ pos'[r] = pos[r] + 1
           /\ ~WellFormed(CurrentRow(r)))
          => (game_list' = game_list /\ table' = table /\ inter' = inter)]_vars

\* the places of registry reg whose entry was registered under the name,
\* in any case: the stored name is the escaped form of what was registered
RegisteredAt(reg, name) ==
    {i \in 1..Len(table[reg]) :
        Lower(table[reg][i].name) = Lower(Escape(name))}

\* C13: escaping does not affect registry equality: a lookup-or-create of a
\* name that was registered before, in any case and with or without double
\* quotes in it, finds that entry, returns its id and adds no entry
C13_EscapingKeepsEquality ==
    [][\A reg \in Registries :
          (/\ last'.op = "lookup" /\ last'.target = reg /\ nrows' = nrows + 1
           /\ RegisteredAt(reg, last'.key) # {})
          => /\ table' = table
             /\ last'.err = "none"
             /\ \E i \in RegisteredAt(reg, last'.key) :
                   last'.id = table[reg][i].id]_vars

\* the statements of a file that insert into table t, in file order
Into(file, t) == SelectSeq(file, LAMBDA stmt : stmt.into = t)

\* C14: the files written have one statement per stored game, in store
\* order, which is ascending internal id; one statement per registry entry,
\* in ascending id order; one statement per association of each store, in
\* insertion order; the statements of the tag store carry the weight as a
\* third value and those of the other six stores have two values
C14_OneStatementEach ==
    \A r \in Runs :
        (last.op = "write" /\ last.run = r) =>
            /\ Len(out[r].game) = Len(game_list)
            /\ \A i \in 1..Len(game_list) :
                  /\ game_list[i].id = i
                  /\ out[r].game[i].into = "Game"
                  /\ out[r].game[i].values[1] = IntToStr(i)
                  /\ out[r].game[i].values[2] = IntToStr(game_list[i].app_id)
            /\ \A reg \in Registries :
                  /\ Len(Into(out[r].aux, reg)) = Len(table[reg])
                  /\ \A i \in 1..Len(table[reg]) :
                        /\ table[reg][i].id = i
                        /\ Into(out[r].aux, reg)[i].values[1] = IntToStr(i)
                        /\ Into(out[r].aux, reg)[i].values[2]
                              \in {DoubleQuoted(table[reg][i].name),
                                   SingleQuoted(table[reg][i].name)}
            /\ \A stmt \in {out[r].aux[i] : i \in 1..Len(out[r].aux)} :
                  stmt.into \in Registries
            /\ \A k \in 1..7 :
                  LET stmts == Into(out[r].inter, StoreOrder[k])
                      store == inter[r][StoreOrder[k]]
                  IN /\ Len(stmts) = Len(store)
                     /\ \A i \in 1..Len(store) :
                           /\ stmts[i].values[1] = IntToStr(store[i].left)
                           /\ stmts[i].values[2] = IntToStr(store[i].right)
                           /\ IF k = 7
                              THEN /\ Len(stmts[i].values) = 3
                                   /\ stmts[i].values[3] = store[i].count
                              ELSE Len(stmts[i].values) = 2
            /\ \A stmt \in {out[r].inter[i] : i \in 1..Len(out[r].inter)} :
                  stmt.into \in Stores

\* the rows 10 and 20 were converted and the files written: two game
\* statements, two developer statements, three developer links and two
\* weighted tag links
C14_Witness ==
    /\ last.op = "write" /\ last.run = 1
    /\ KeysOf(1) = <<RowBase.app_id, RowAlice.app_id>>
    /\ Len(out[1].game) = 2
    /\ Len(Into(out[1].aux, "Developer")) = 2
    /\ Len(Into(out[1].inter, "GameDevelopers")) = 3
    /\ Len(Into(out[1].inter, "GameTags")) = 2
    /\ Into(out[1].inter, "GameTags")[1].values = <<<<"1">>, <<"1">>, <<"2","5">>>>

(***************************************************************************)
(* SpecRead: one run with num_of_entries from nothing to more than the     *)
(* file has.                                                               *)
(***************************************************************************)
ReadCounts == {-1, 0, 1, 2}
ReadRows == {RowBase, RowAlice, RowSameId}

NextRead ==
    \/ \E r \in FirstRun, n \in ReadCounts : StartRun(r, n)
    \/ \E r \in FirstRun, row \in ReadRows : ReadRow(r, row)
    \/ \E r \in FirstRun : FinishRead(r)
    \/ \E r \in FirstRun : BeginConvert(r)
    \/ \E r \in FirstRun : ConvertRowStep(r)
    \/ \E r \in FirstRun : Serialize(r)

SpecRead == Init /\ [][NextRead]_vars

\* num_of_entries of the one run: count starts there and loses one for
\* each row read
Configured(r) == count[r] + nrows

\* C15: with a maximum n >= 0 the run reads at most n rows of steam.csv, so
\* that at most n games are stored
C15_AtMostN ==
    \A r \in FirstRun :
        (pc[r] # "idle" /\ Configured(r) >= 0)
        => (/\ nrows <= Configured(r)
            /\ Len(steam_csv_dict[r]) <= Configured(r)
            /\ Len(game_list) <= Configured(r))

\* the dict of run r starts with the rows given, and the loop has converted
\* exactly these
ConvertedExactly(r, rows) ==
    /\ Len(steam_csv_dict[r]) >= Len(rows)
    /\ SubSeq(steam_csv_dict[r], 1, Len(rows)) = [i \in 1..Len(rows) |-> Joined(rows[i])]
    /\ pos[r] = Len(rows)

\* a link without a weight of its own
PlainLink(g, e) == [left |-> g, right |-> e, count |-> 1]

\* C16: in a fresh process the valid row with app id 10 and developers
\* "Alice;Bob" gives one game with id 1, the developers Alice = 1 and
\* Bob = 2 and the developer links (1,1), (1,2) in this order; the valid row
\* with developers "alice" after it gives a game with id 2 and the link
\* (2,1), and the developer registry still has two entries
C16_AliceBobScenario ==
    /\ ConvertedExactly(1, <<RowBase>>)
       => /\ Len(game_list) = 1
          /\ game_list[1].id = 1 /\ game_list[1].app_id = 10
          /\ table["Developer"] = <<[id |-> 1, name |-> <<"A","l","i","c","e">>],
                                    [id |-> 2, name |-> <<"B","o","b">>]>>
          /\ inter[1]["GameDevelopers"] = <<PlainLink(1, 1), PlainLink(1, 2)>>
    /\ ConvertedExactly(1, <<RowBase, RowAlice>>)
       => /\ Len(game_list) = 2
          /\ game_list[1].id = 1 /\ game_list[1].app_id = 10
          /\ game_list[2].id = 2 /\ game_list[2].app_id = 20
          /\ table["Developer"] = <<[id |-> 1, name |-> <<"A","l","i","c","e">>],
                                    [id |-> 2, name |-> <<"B","o","b">>]>>
          /\ inter[1]["GameDevelopers"]
                = <<PlainLink(1, 1), PlainLink(1, 2), PlainLink(2, 1)>>

\* the row with developers "alice" has just been converted after row 10
C16_Witness ==
    /\ ConvertedExactly(1, <<RowBase, RowAlice>>)
    /\ JustConverted(1) /\ last.key = RowAlice.app_id
    /\ last.err = "none" /\ last.id = 2
    /\ Len(table["Developer"]) = 2

\* a text of decimal digits only
AllDigits(s) == s # <<>> /\ \A i \in 1..Len(s) : IsDigit(s[i])

\* the owners column of the row is "A-B" with A and B non-negative integers
OwnersForm(row) ==
    /\ Len(Split(row.owners, "-")) = 2
    /\ AllDigits(Split(row.owners, "-")[1])
    /\ AllDigits(Split(row.owners, "-")[2])

\* A and B of such a row
LowerBound(row) == DigitRunVal(Split(row.owners, "-")[1], 0)
UpperBound(row) == DigitRunVal(Split(row.owners, "-")[2], 0)

\* text is the integer literal of n: its decimal digits, no leading zero
IsLiteralOf(text, n) ==
    /\ AllDigits(text)
    /\ (Len(text) = 1 \/ text[1] # "0")
    /\ DigitRunVal(text, 0) = n

\* the places of the two bounds in the VALUES list of a Game statement
LowerBoundPlace == 11
UpperBoundPlace == 12

\* C17: the game stored for a row whose owners column is "A-B", with A and
\* B non-negative integers, has the integers A and B as its lower and upper
\* owner bound, and its statement has the integer literals of A and B at
\* the places of the two bounds; the statements written are those
C17_BoundsRoundTrip ==
    /\ [][\A r \in Runs :
             (/\ pc[r] = "rows" /\ pos'[r] = pos[r] + 1
              /\ last'.id # 0 /\ OwnersForm(CurrentRow(r)))
             => LET g == game_list'[Len(game_list')]
                IN /\ g.id = last'.id
                   /\ g.owner_low = LowerBound(CurrentRow(r))
                   /\ g.owner_high = UpperBound(CurrentRow(r))
                   /\ IsLiteralOf(GameToSql(g).values[LowerBoundPlace],
                                  LowerBound(CurrentRow(r)))
                   /\ IsLiteralOf(GameToSql(g).values[UpperBoundPlace],
                                  UpperBound(CurrentRow(r)))]_vars
    /\ [](\A r \in Runs :
             (last.op = "write" /\ last.run = r) =>
                /\ Len(out[r].game) = Len(game_list)
                /\ \A i \in 1..Len(game_list) :
                      /\ IsLiteralOf(out[r].game[i].values[LowerBoundPlace],
                                     game_list[i].owner_low)
                      /\ IsLiteralOf(out[r].game[i].values[UpperBoundPlace],
                                     game_list[i].owner_high))

\* the rows with owners "20-100" and "020-0100" were converted and written:
\* both statements carry 20 and 100
C17_Witness ==
    /\ last.op = "write" /\ last.run = 1
    /\ KeysOf(1) = <<RowBase.app_id, RowPaddedOwners.app_id>>
    /\ Len(game_list) = 2
    /\ game_list[2].owner_low = 20 /\ game_list[2].owner_high = 100
    /\ out[1].game[1].values[11] = <<"2","0">>
    /\ out[1].game[1].values[12] = <<"1","0","0">>
    /\ out[1].game[2].values[11] = <<"2","0">>
    /\ out[1].game[2].values[12] = <<"1","0","0">>

(***************************************************************************)
(* SpecInterleaved: two calls of read_and_convert_to_sql in one process,   *)
(* each in a thread of its own, switching between the turns of their       *)
(* loops.  The classes of the tables module, and so Game.game_list and the *)
(* six table lists, are the same objects for both.                         *)
(***************************************************************************)
InterleavedRows == {RowBase, RowAlice}

\* the call, up to the open of steam.csv, whatever the other thread is at
StartThread(r) ==
    /\ pc[r] = "idle"
    /\ pc' = [pc EXCEPT ![r] = "read"]
    /\ count' = [count EXCEPT ![r] = -1]
    /\ last' = [NoCall EXCEPT !.op = "start", !.run = r]
    /\ UNCHANGED <<game_list, table, inter, steam_csv_dict, pos, out, nrows>>

NextInterleaved ==
    \/ \E r \in Runs : StartThread(r)
    \/ \E r \in Runs, row \in InterleavedRows : ReadRow(r, row)
    \/ \E r \in Runs : FinishRead(r)
    \/ \E r \in Runs : BeginConvert(r)
    \/ \E r \in Runs : ConvertRowStep(r)
    \/ \E r \in Runs : Serialize(r)

SpecInterleaved == Init /\ [][NextInterleaved]_vars

RECURSIVE AloneFrom(_, _)
\* the loop over the rows from result res on, with no other run about
AloneFrom(rows, res) ==
    IF rows = <<>> \/ res.err \in {"IndexError", "KeyError"} THEN res
    ELSE AloneFrom(Tail(rows),
                   ConvertRow(res.game_list, res.table, res.inter, Head(rows)))

\* what a run over the dict d leaves behind when it is the only run of its
\* process
Alone(d) ==
    AloneFrom(d, [game_list |-> <<>>, table |-> [reg \in Registries |-> <<>>],
                  inter |-> EmptyStores, err |-> "none", game_id |-> 0])

\* C18: two runs interleaved in one process do not share state: what a run
\* writes, and the games, registry entries and links it holds when it
\* writes, are those of the same run alone in a process of its own
C18_RunsIsolated ==
    \A r \in Runs :
        (last.op = "write" /\ last.run = r) =>
            \E alone \in {Alone(steam_csv_dict[r])} :
                /\ game_list = alone.game_list
                /\ table = alone.table
                /\ inter[r] = alone.inter
                /\ out[r] = Output(alone.game_list, alone.table, alone.inter)

\* run r is the call that is under way or has just ended
Current(r) == last.run = r /\ pc[r] \in {"rows", "done", "aborted"}

\* C19: within a run, every link (g, e) of each of its seven stores has g
\* the id of a game of the game store and e from 1 to the size of the
\* registry of the store, which is Genre for GameGenres and for GameTags
C19_ReferentialIntegrity ==
    \A r \in Runs :
        Current(r) =>
            \A k \in 1..7 :
                \A i \in 1..Len(inter[r][StoreOrder[k]]) :
                    LET link == inter[r][StoreOrder[k]][i]
                    IN /\ \E j \in 1..Len(game_list) : game_list[j].id = link.left
                       /\ 1 <= link.right
                       /\ link.right <= Len(table[RegistryOf[k]])

\* the rows 10 and 20 are converted: both games are linked to the one
\* genre, in GameGenres and in GameTags
C19_Witness ==
    /\ Current(1) /\ pc[1] = "rows" /\ pos[1] = 2
    /\ KeysOf(1) = <<RowBase.app_id, RowAlice.app_id>>
    /\ Len(game_list) = 2 /\ Len(table["Genre"]) = 1
    /\ inter[1]["GameGenres"] = <<PlainLink(1, 1), PlainLink(2, 1)>>
    /\ Len(inter[1]["GameTags"]) = 2
    /\ inter[1]["GameTags"][2].left = 2 /\ inter[1]["GameTags"][2].right = 1

(***************************************************************************)
(* SpecLifetime: two runs, one after the other, in the same process, over  *)
(* rows that hit entries, create entries and have a creation rejected.     *)
(***************************************************************************)
LifetimeRows == {RowBase, RowAlice, RowLongPub, RowQuote}

NextLifetime ==
    \/ \E r \in Runs : StartRun(r, -1)
    \/ \E r \in Runs, row \in LifetimeRows : ReadRow(r, row)
    \/ \E r \in Runs : FinishRead(r)
    \/ \E r \in Runs : BeginConvert(r)
    \/ \E r \in Runs : ConvertRowStep(r)
    \/ \E r \in Runs : Serialize(r)

SpecLifetime == Init /\ [][NextLifetime]_vars

\* C20: in every registry, across the runs of a process, the entry at
\* 0-based position i has id i + 1; entries are only appended, so the id of
\* an entry never changes; and the id a row computes for a name, on a hit
\* (index + 1) or on a creation, is the id of an entry of that name
C20_IdIsPosition ==
    /\ [](\A reg \in Registries :
             \A i \in 1..Len(table[reg]) : table[reg][i].id = i)
    /\ [][\A reg \in Registries : IsPrefix(table[reg], table'[reg])]_vars
    /\ [][\A r \in Runs :
             (/\ pc[r] = "rows" /\ pos'[r] = pos[r] + 1
              /\ last'.id # 0 /\ last'.err = "none")
             => \A k \in 1..7 :
                   \A i \in 1..Len(PiecesOf(CurrentRow(r), k)) :
                      \E e \in 1..Len(table'[RegistryOf[k]]) :
                         /\ table'[RegistryOf[k]][e].id = e
                         /\ Lower(table'[RegistryOf[k]][e].name)
                               = Lower(Escape(PiecesOf(CurrentRow(r), k)[i]))
                         /\ PairCount(inter'[r][StoreOrder[k]], last'.id, e) = 1]_vars

\* the first run created Alice, Bob and Eve and had a publisher rejected;
\* the second run has just linked its game to "alice" by a hit: id 1
C20_Witness ==
    /\ JustConverted(2) /\ last.key = RowAlice.app_id /\ last.err = "none"
    /\ KeysOf(1) = <<RowBase.app_id, RowLongPub.app_id>>
    /\ Len(table["Developer"]) = 3
    /\ table["Developer"][1] = [id |-> 1, name |-> <<"A","l","i","c","e">>]
    /\ table["Developer"][3] = [id |-> 3, name |-> <<"E","v","e">>]
    /\ Len(table["Publisher"]) = 1
    /\ inter[2]["GameDevelopers"] = <<PlainLink(1, 1)>>

====
